---- MODULE Spec2Model ----
(***************************************************************************)
(* powerschool-notifier (src/main.go): a polling loop that loads the two   *)
(* backup snapshots, fetches the student record, projects it to Classes    *)
(* and Assignments, diffs each kind against its snapshot, sends one        *)
(* Discord message per kind and overwrites the snapshots.                  *)
(*                                                                         *)
(* Dates are integers YYYYMMDD (ordered like the instants they denote).    *)
(* Strings that the code only copies and compares are TLA+ strings;        *)
(* strings it inspects or builds (term titles, scores and the "%"-suffixed *)
(* assignment grade) are sequences of one-character strings.               *)
(***************************************************************************)
EXTENDS Integers, Sequences, FiniteSets, TLC

VARIABLES
    fileClasses,      \* backup_classes.json
    fileAssignments,  \* backup_assignments.json
    tickPending,      \* ticker.C holds an undelivered tick (buffer of one)
    pc,               \* position of main / fetchAndCompare
    oldClasses, err1,         \* fetchAndCompare locals, lines 227-228
    oldAssignments, err2,
    fetched,                  \* outcome of GetStudent in this cycle
    newClasses, newAssignments,
    changesC, changesA,       \* the changes slices of the two compare calls
    notifyC, notifyA,         \* what each compare call did with its changes
    saveC, saveA,             \* outcome of each save call in this cycle
    lastCycle,                \* history: the last cycle that passed the fetch
    dOld, dNew, dKind, dRun1, dRun2, dpc,  \* the diff engine run on its own
    pStudent, pNow, pOld,                  \* the projection run on its own:
    pAllowed, pWindow,                     \* a student record, the clock, the
    pClasses, pAssignments, pChanges, ppc  \* old snapshot and what is derived

cycleVars == <<pc, oldClasses, err1, oldAssignments, err2, fetched,
               newClasses, newAssignments, changesC, changesA,
               notifyC, notifyA, saveC, saveA>>
diffVars == <<dOld, dNew, dKind, dRun1, dRun2, dpc>>
projVars == <<pStudent, pNow, pOld, pAllowed, pWindow, pClasses, pAssignments,
              pChanges, ppc>>
vars == <<fileClasses, fileAssignments, tickPending, cycleVars, lastCycle, diffVars,
          projVars>>

----------------------------------------------------------------------------
(* Bounds of the upstream data the model enumerates.                       *)

MaxFinalGrades == 2      \* length of student.FinalGrades
MaxAssignments == 1      \* length of student.Assignments

(* Program constants.                                                      *)
termBeginDateInit == 21000101    \* time.Parse(.., "2100-01-01")
termDueDateInit   == 20000101    \* time.Parse(.., "2000-01-01")

----------------------------------------------------------------------------
(* Small helpers over sequences.                                           *)

Range(s) == {s[i] : i \in 1..Len(s)}

SeqsUpTo(S, n) == UNION {[1..k -> S] : k \in 0..n}

\* every order in which the elements of the finite set S can be listed
Orderings(S) ==
    {f \in [1..Cardinality(S) -> S] : \A i, j \in 1..Cardinality(S) : f[i] = f[j] => i = j}

\* strings.HasPrefix
HasPrefix(s, prefix) ==
    /\ Len(s) >= Len(prefix)
    /\ SubSeq(s, 1, Len(prefix)) = prefix

----------------------------------------------------------------------------
(* The upstream student record (powerschool.Student) as far as the code    *)
(* reads it, and the bounded values GetStudent may return.                 *)

Sections ==
    << [Id |-> 1, SchoolCourseTitle |-> "Math"],
       [Id |-> 2, SchoolCourseTitle |-> "Art"] >>

\* Q1 and Q2 overlap in March 2024; S1 spans both and is no quarter.
ReportingTerms ==
    << [Id |-> 1, Title |-> <<"Q", "1">>, StartDate |-> 20240101, EndDate |-> 20240315],
       [Id |-> 2, Title |-> <<"Q", "2">>, StartDate |-> 20240301, EndDate |-> 20240601],
       [Id |-> 3, Title |-> <<"S", "1">>, StartDate |-> 20240101, EndDate |-> 20240601] >>

\* time.Now(): in Q1 only, in Q1 and Q2, in Q2 only, after every term
Nows == {20240201, 20240310, 20240401, 20240701}

FinalGradeEntries ==
    [Sectionid : {1}, ReportingTermId : {1, 2}, Grade : {"A", "B"}]
        \cup [Sectionid : {2}, ReportingTermId : {3}, Grade : {"C"}]

\* student.FinalGrades: at most one final grade per section and term
FinalGradeLists ==
    {l \in SeqsUpTo(FinalGradeEntries, MaxFinalGrades) :
        \A i, j \in 1..Len(l) :
            (l[i].Sectionid = l[j].Sectionid
                /\ l[i].ReportingTermId = l[j].ReportingTermId) => i = j}

AssignmentName(id) == IF id = 1 THEN "HW1" ELSE IF id = 2 THEN "Quiz" ELSE "Essay"

\* assignment id belongs to section id and is due in February (inside Q1)
\* or in July (inside no term)
AssignmentEntries(id) ==
    [Id : {id}, Name : {AssignmentName(id)}, Sectionid : {id}, DueDate : {20240215, 20240715}]

\* student.Assignments: up to MaxAssignments assignments with distinct ids,
\* in either order of the ids
AssignmentLists ==
    {l \in SeqsUpTo(UNION {AssignmentEntries(id) : id \in 1..MaxAssignments}, MaxAssignments) :
        \A i, j \in 1..Len(l) : l[i].Id = l[j].Id => i = j}

Scores == {<<>>, <<"8", "5">>, <<"9", "0">>}

\* student.AssignmentScores: one entry per assignment id, score "" when ungraded
AssignmentScoreLists ==
    {[i \in 1..MaxAssignments |-> [AssignmentId |-> i, Score |-> f[i]]] :
        f \in [1..MaxAssignments -> Scores]}

Students ==
    [Sections : {Sections}, ReportingTerms : {ReportingTerms},
     FinalGrades : FinalGradeLists, Assignments : AssignmentLists,
     AssignmentScores : AssignmentScoreLists]

----------------------------------------------------------------------------
(* fetchAndCompare, lines 244-306: the projection of the student record.   *)

\* idMap[id] after the loop of lines 245-248 (the last section of an id
\* wins; a missing key reads as "")
idMap(sections, id) ==
    LET hits == {i \in 1..Len(sections) : sections[i].Id = id}
    IN  IF hits = {} THEN ""
        ELSE sections[CHOOSE i \in hits : \A j \in hits : j <= i].SchoolCourseTitle

\* the condition of lines 254-256
TermIsActive(term, now) ==
    /\ now > term.StartDate
    /\ now < term.EndDate
    /\ HasPrefix(term.Title, <<"Q">>)

\* allowedTerms after the loop of lines 253-265, as the set of its keys
allowedTerms(terms, now) ==
    {terms[i].Id : i \in {j \in 1..Len(terms) : TermIsActive(terms[j], now)}}

\* termBeginDate and termDueDate after the first n terms of the loop
RECURSIVE TermWindow(_, _, _)
TermWindow(terms, now, n) ==
    IF n = 0
    THEN [termBeginDate |-> termBeginDateInit, termDueDate |-> termDueDateInit]
    ELSE LET w == TermWindow(terms, now, n - 1)
             t == terms[n]
         IN  IF TermIsActive(t, now)
             THEN [termDueDate   |-> IF w.termDueDate < t.EndDate
                                     THEN t.EndDate ELSE w.termDueDate,
                   termBeginDate |-> IF w.termBeginDate > t.StartDate
                                     THEN t.StartDate ELSE w.termBeginDate]
             ELSE w

\* newClasses after the first n final grades of the loop of lines 267-276
RECURSIVE ProjectClasses(_, _, _)
ProjectClasses(student, now, n) ==
    IF n = 0 THEN <<>>
    ELSE LET rest == ProjectClasses(student, now, n - 1)
             finalGrade == student.FinalGrades[n]
         IN  IF finalGrade.ReportingTermId \in allowedTerms(student.ReportingTerms, now)
             THEN Append(rest, [ID    |-> finalGrade.Sectionid,
                                Name  |-> idMap(student.Sections, finalGrade.Sectionid),
                                Grade |-> finalGrade.Grade])
             ELSE rest

\* the keys of assignmentScoreMap after the loop of lines 278-283
ScoredIds(scores) ==
    {scores[i].AssignmentId : i \in {j \in 1..Len(scores) : scores[j].Score # <<>>}}

\* assignmentScoreMap[id] for a key: Sprintf("%s%%") of the last non-empty score
assignmentScoreMap(scores, id) ==
    LET hits == {i \in 1..Len(scores) :
                    scores[i].AssignmentId = id /\ scores[i].Score # <<>>}
    IN  Append(scores[CHOOSE i \in hits : \A j \in hits : j <= i].Score, "%")

\* lines 291-297: the name of the first class with that id, else ""
ClassNameOf(classes, sectionid) ==
    LET hits == {i \in 1..Len(classes) : classes[i].ID = sectionid}
    IN  IF hits = {} THEN ""
        ELSE classes[CHOOSE i \in hits : \A j \in hits : i <= j].Name

\* newAssignments after the first n assignments of the loop of lines 285-306
RECURSIVE ProjectAssignments(_, _, _, _)
ProjectAssignments(student, now, classes, n) ==
    IF n = 0 THEN <<>>
    ELSE LET rest == ProjectAssignments(student, now, classes, n - 1)
             assignment == student.Assignments[n]
             w == TermWindow(student.ReportingTerms, now, Len(student.ReportingTerms))
         IN  IF /\ assignment.DueDate < w.termDueDate
                /\ assignment.DueDate > w.termBeginDate
                /\ assignment.Id \in ScoredIds(student.AssignmentScores)
             THEN Append(rest,
                    [ID        |-> assignment.Id,
                     Name      |-> assignment.Name,
                     Grade     |-> assignmentScoreMap(student.AssignmentScores, assignment.Id),
                     ClassID   |-> assignment.Sectionid,
                     ClassName |-> ClassNameOf(classes, assignment.Sectionid)])
             ELSE rest

NewClasses(student, now) == ProjectClasses(student, now, Len(student.FinalGrades))

\* the bug C12 excludes: every scored assignment is projected, whatever
\* the window
NewAssignmentsIgnoringWindow(student, now) ==
    LET scored == SelectSeq(student.Assignments,
                            LAMBDA a : a.Id \in ScoredIds(student.AssignmentScores))
    IN  [i \in 1..Len(scored) |->
            [ID        |-> scored[i].Id,
             Name      |-> scored[i].Name,
             Grade     |-> assignmentScoreMap(student.AssignmentScores, scored[i].Id),
             ClassID   |-> scored[i].Sectionid,
             ClassName |-> ClassNameOf(NewClasses(student, now), scored[i].Sectionid)]]

\* the bug C14 excludes: an assignment inside the window is projected
\* whether or not it has a score
NewAssignmentsWithUngraded(student, now) ==
    LET w == TermWindow(student.ReportingTerms, now, Len(student.ReportingTerms))
        inside == SelectSeq(student.Assignments,
                            LAMBDA a : a.DueDate < w.termDueDate /\ a.DueDate > w.termBeginDate)
    IN  [i \in 1..Len(inside) |->
            [ID        |-> inside[i].Id,
             Name      |-> inside[i].Name,
             Grade     |-> IF inside[i].Id \in ScoredIds(student.AssignmentScores)
                           THEN assignmentScoreMap(student.AssignmentScores, inside[i].Id)
                           ELSE <<"%">>,
             ClassID   |-> inside[i].Sectionid,
             ClassName |-> ClassNameOf(NewClasses(student, now), inside[i].Sectionid)]]

NewAssignments(student, now) ==
    ProjectAssignments(student, now, NewClasses(student, now), Len(student.Assignments))

\* every pair of collections one fetch can project
Projections ==
    {<<NewClasses(s, now), NewAssignments(s, now)>> : s \in Students, now \in Nows}

----------------------------------------------------------------------------
(* The backup files.  A file is missing, holds a complete JSON document    *)
(* (st = "ok", data = the collection it decodes to) or holds a document    *)
(* cut short by a failed write (st = "partial"), which json.Unmarshal      *)
(* rejects.                                                                *)

MissingFile == [st |-> "missing", data |-> <<>>]
PartialFile == [st |-> "partial", data |-> <<>>]
FileOf(collection) == [st |-> "ok", data |-> collection]

\* loadBackupDataClasses, lines 72-93: ([]Class{}, err) when os.Open or
\* json.Unmarshal fails, else (classes, nil).  Opening and reading a file
\* that exists is taken to succeed.
loadBackupDataClasses(file) ==
    IF file.st = "ok"
    THEN [data |-> file.data, err |-> FALSE]
    ELSE [data |-> <<>>, err |-> TRUE]

\* loadBackupDataAssignments, lines 95-115
loadBackupDataAssignments(file) ==
    IF file.st = "ok"
    THEN [data |-> file.data, err |-> FALSE]
    ELSE [data |-> <<>>, err |-> TRUE]

\* What os.WriteFile (open with O_TRUNC, write, close) can do to a file:
\* "written": all bytes written; "notopened": the open fails, nothing is
\* touched; "cut": the file is truncated and the write fails part-way.
WriteOutcomes == {"written", "notopened", "cut"}

\* the bug C18 excludes: the new classes are added to what the file holds
saveBackupDataClassesMerging(file, classes, outcome) ==
    CASE outcome = "written"   -> [file |-> FileOf(file.data \o classes), err |-> FALSE]
      [] outcome = "notopened" -> [file |-> file, err |-> TRUE]
      [] outcome = "cut"       -> [file |-> PartialFile, err |-> TRUE]

\* saveBackupDataClasses, lines 117-124: the file afterwards and the error
saveBackupDataClasses(file, classes, outcome) ==
    CASE outcome = "written"   -> [file |-> FileOf(classes), err |-> FALSE]
      [] outcome = "notopened" -> [file |-> file, err |-> TRUE]
      [] outcome = "cut"       -> [file |-> PartialFile, err |-> TRUE]

\* saveBackupDataAssignments, lines 126-133
saveBackupDataAssignments(file, assignments, outcome) ==
    CASE outcome = "written"   -> [file |-> FileOf(assignments), err |-> FALSE]
      [] outcome = "notopened" -> [file |-> file, err |-> TRUE]
      [] outcome = "cut"       -> [file |-> PartialFile, err |-> TRUE]

----------------------------------------------------------------------------
(* The diff engine.  A change is the record of the arguments of its        *)
(* Sprintf call: type names the format string, and id (which the message   *)
(* text does not carry) names the record the change is about.              *)

\* sendDiscordNotification, lines 136-155: a message is the list of its
\* lines; posted tells whether http.Post returned without error
sendDiscordNotification(message, posted) ==
    IF message = <<>> THEN "skipped"
    ELSE IF posted THEN "sent" ELSE "failed"

\* lines 186-190 and 215-219: notify when there are changes, else log
NotifyChanges(changes, posted) ==
    IF Len(changes) > 0
    THEN sendDiscordNotification(changes, posted)
    ELSE "nochanges"

\* oldGrades after the loop of lines 197-199: the ids it holds
oldGradesKeys(oldClasses_) == {oldClasses_[i].ID : i \in 1..Len(oldClasses_)}

\* oldGrades[id]: the grade of the last old class with that id
oldGrades(oldClasses_, id) ==
    LET hits == {i \in 1..Len(oldClasses_) : oldClasses_[i].ID = id}
    IN  oldClasses_[CHOOSE i \in hits : \A j \in hits : j <= i].Grade

\* the bug C6 excludes: a new class whose id the old map lacks is passed over
ClassChangeWithoutAdded(oldClasses_, class) ==
    IF class.ID \in oldGradesKeys(oldClasses_)
          /\ oldGrades(oldClasses_, class.ID) # class.Grade
    THEN << [type |-> "Grade changed for", id |-> class.ID, name |-> class.Name,
             old |-> oldGrades(oldClasses_, class.ID), new |-> class.Grade] >>
    ELSE <<>>

\* the changes appended for one new class, lines 202-212
ClassChange(oldClasses_, class) ==
    IF class.ID \in oldGradesKeys(oldClasses_)
    THEN IF oldGrades(oldClasses_, class.ID) # class.Grade
         THEN << [type |-> "Grade changed for", id |-> class.ID, name |-> class.Name,
                  old |-> oldGrades(oldClasses_, class.ID), new |-> class.Grade] >>
         ELSE <<>>
    ELSE << [type |-> "New class added", id |-> class.ID, name |-> class.Name,
             new |-> class.Grade] >>

\* changes of compareGradesAndNotifyChanges after the first n new classes
RECURSIVE ClassChanges(_, _, _)
ClassChanges(oldClasses_, newClasses_, n) ==
    IF n = 0 THEN <<>>
    ELSE ClassChanges(oldClasses_, newClasses_, n - 1)
            \o ClassChange(oldClasses_, newClasses_[n])

\* the bug C17 excludes: the changes of the new classes in reverse order
compareGradesBackwards(oldClasses_, newClasses_) ==
    LET changes == ClassChanges(oldClasses_, newClasses_, Len(newClasses_))
    IN  [i \in 1..Len(changes) |-> changes[Len(changes) + 1 - i]]

\* compareGradesAndNotifyChanges, lines 193-213: the changes slice
compareGrades(oldClasses_, newClasses_) ==
    ClassChanges(oldClasses_, newClasses_, Len(newClasses_))

\* oldAssignmentMap after the loop of lines 161-163: id -> last old
\* assignment with that id
oldAssignmentMap(oldAssignments_) ==
    [id \in {oldAssignments_[i].ID : i \in 1..Len(oldAssignments_)} |->
        LET hits == {i \in 1..Len(oldAssignments_) : oldAssignments_[i].ID = id}
        IN  oldAssignments_[CHOOSE i \in hits : \A j \in hits : j <= i]]

\* delete(m, id)
MapDelete(m, id) == [k \in DOMAIN m \ {id} |-> m[k]]

\* lines 165-178 after the first n new assignments: the map that is left
\* and the changes appended so far
RECURSIVE AssignmentLoop(_, _, _)
AssignmentLoop(oldAssignments_, newAssignments_, n) ==
    IF n = 0
    THEN [map |-> oldAssignmentMap(oldAssignments_), changes |-> <<>>]
    ELSE LET before == AssignmentLoop(oldAssignments_, newAssignments_, n - 1)
             newAssignment == newAssignments_[n]
         IN  IF newAssignment.ID \in DOMAIN before.map
             THEN [map |-> MapDelete(before.map, newAssignment.ID),
                   changes |->
                     IF before.map[newAssignment.ID].Grade # newAssignment.Grade
                     THEN Append(before.changes,
                            [type |-> "Grade changed for assignment",
                             id |-> newAssignment.ID, name |-> newAssignment.Name,
                             className |-> newAssignment.ClassName,
                             old |-> before.map[newAssignment.ID].Grade,
                             new |-> newAssignment.Grade])
                     ELSE before.changes]
             ELSE [map |-> before.map,
                   changes |-> Append(before.changes,
                            [type |-> "New assignment added",
                             id |-> newAssignment.ID, name |-> newAssignment.Name,
                             className |-> newAssignment.ClassName,
                             new |-> newAssignment.Grade])]

\* lines 180-184: one change per entry left in the map, in the order the
\* range over the map yields its keys
RemovedChanges(m, order) ==
    [i \in 1..Len(order) |->
        [type |-> "Assignment removed", id |-> order[i],
         name |-> m[order[i]].Name, className |-> m[order[i]].ClassName]]

\* the orders in which a range over map m may yield its keys: the Go
\* language leaves the iteration order of a map unspecified
MapRangeOrders(m) == Orderings(DOMAIN m)

\* compareAssignmentsAndNotifyChanges, lines 157-184: the changes slices a
\* call may build
compareAssignments(oldAssignments_, newAssignments_) ==
    LET loop == AssignmentLoop(oldAssignments_, newAssignments_, Len(newAssignments_))
    IN  {loop.changes \o RemovedChanges(loop.map, order) : order \in MapRangeOrders(loop.map)}

----------------------------------------------------------------------------
(* main and fetchAndCompare as a state machine.                            *)

filesVars == <<fileClasses, fileAssignments>>

\* the locals of fetchAndCompare before any statement of a cycle has run
CycleReset ==
    /\ fetched' = "pending"
    /\ newClasses' = <<>>
    /\ newAssignments' = <<>>
    /\ changesC' = <<>>
    /\ changesA' = <<>>
    /\ notifyC' = "none"
    /\ notifyA' = "none"
    /\ saveC' = "none"
    /\ saveA' = "none"

\* History kept for the claims that relate one cycle to the next: what the
\* last cycle that passed the fetch projected and how its saves ended and,
\* for a kind whose save failed, what that cycle diffed against and
\* reported.  It is taken when the next cycle starts and only in the
\* specification that records it; no action reads it.
NoRecord ==
    [recording |-> FALSE, valid |-> FALSE]

NothingFailed == [failed |-> FALSE]

CycleRecord ==
    [recording |-> TRUE, valid |-> TRUE,
     newClasses |-> newClasses, newAssignments |-> newAssignments,
     saveC |-> saveC, saveA |-> saveA,
     failedC |-> IF saveC = "failed"
                 THEN [failed |-> TRUE, old |-> oldClasses, changes |-> changesC]
                 ELSE NothingFailed,
     failedA |-> IF saveA = "failed"
                 THEN [failed |-> TRUE, old |-> oldAssignments, changes |-> changesA]
                 ELSE NothingFailed]

\* the runtime's ticker goroutine, line 325: every 30 seconds it offers a
\* tick to ticker.C, which holds one; a tick offered to a full channel is
\* dropped
Tick ==
    /\ ~tickPending
    /\ tickPending' = TRUE
    /\ UNCHANGED <<filesVars, cycleVars, lastCycle, diffVars, projVars>>

\* the bug C15 excludes: a tick starts a call of fetchAndCompare while one
\* is running
TickReceivableAnytime(at) == TRUE

\* main, lines 332-334: the range over ticker.C takes the next tick only
\* after the call of fetchAndCompare has returned
TickReceivable(at) == at = "wait"

\* main, line 332: the loop receives a tick and calls fetchAndCompare
TickerReceive ==
    /\ TickReceivable(pc)
    /\ tickPending
    /\ tickPending' = FALSE
    /\ pc' = "load"
    /\ UNCHANGED <<filesVars, oldClasses, err1, oldAssignments, err2, fetched,
                   newClasses, newAssignments, changesC, changesA,
                   notifyC, notifyA, saveC, saveA, lastCycle, diffVars, projVars>>

\* the bug C8 excludes: a failed load ends the cycle
AfterLoadAborting(e1, e2) == IF e1 \/ e2 THEN "wait" ELSE "fetch"

\* where fetchAndCompare goes on after the two loads: a load error is only
\* logged as a warning, lines 229-234
AfterLoad(e1, e2) == "fetch"

\* fetchAndCompare, lines 226-234
LoadBackups ==
    /\ pc = "load"
    /\ oldClasses' = loadBackupDataClasses(fileClasses).data
    /\ err1' = loadBackupDataClasses(fileClasses).err
    /\ oldAssignments' = loadBackupDataAssignments(fileAssignments).data
    /\ err2' = loadBackupDataAssignments(fileAssignments).err
    /\ CycleReset
    /\ lastCycle' = IF lastCycle.recording /\ fetched = "ok" THEN CycleRecord ELSE lastCycle
    /\ pc' = AfterLoad(err1', err2')
    /\ UNCHANGED <<filesVars, tickPending, diffVars, projVars>>

\* the bug C2 excludes: going on to the compare calls after a failed fetch
AfterFetchIgnoringError(err) == "compareGrades"

\* the bug C16 excludes: a failed fetch ends the process
AfterFetchExiting(err) == IF err THEN "exit" ELSE "compareGrades"

\* where fetchAndCompare goes on after GetStudent, lines 239-242
AfterFetch(err) == IF err THEN "wait" ELSE "compareGrades"

\* fetchAndCompare, lines 236-242 with err # nil
FetchFails ==
    /\ pc = "fetch"
    /\ fetched' = "failed"
    /\ pc' = AfterFetch(TRUE)
    /\ UNCHANGED <<filesVars, tickPending, oldClasses, err1, oldAssignments, err2,
                   newClasses, newAssignments, changesC, changesA,
                   notifyC, notifyA, saveC, saveA, lastCycle, diffVars, projVars>>

\* fetchAndCompare, lines 236-306 with err = nil
FetchAndProject ==
    /\ pc = "fetch"
    /\ \E p \in Projections :
          /\ newClasses' = p[1]
          /\ newAssignments' = p[2]
    /\ fetched' = "ok"
    /\ pc' = AfterFetch(FALSE)
    /\ UNCHANGED <<filesVars, tickPending, oldClasses, err1, oldAssignments, err2,
                   changesC, changesA, notifyC, notifyA, saveC, saveA, lastCycle, diffVars, projVars>>

\* the bug C9 excludes: a notification that fails ends the cycle
AfterCompareGradesAborting(notified) ==
    IF notified = "failed" THEN "wait" ELSE "compareAssignments"

\* where fetchAndCompare goes on after a compare call, whatever became of
\* the notification: sendDiscordNotification returns nothing (lines 309-313)
AfterCompareGrades(notified) == "compareAssignments"
AfterCompareAssignments(notified) == "saveClasses"

\* fetchAndCompare, line 309
CompareGradesAndNotifyChanges ==
    /\ pc = "compareGrades"
    /\ changesC' = compareGrades(oldClasses, newClasses)
    /\ \E posted \in BOOLEAN :
          /\ notifyC' = NotifyChanges(changesC', posted)
          /\ pc' = AfterCompareGrades(notifyC')
    /\ UNCHANGED <<filesVars, tickPending, oldClasses, err1, oldAssignments, err2,
                   fetched, newClasses, newAssignments, changesA,
                   notifyA, saveC, saveA, lastCycle, diffVars, projVars>>

\* fetchAndCompare, line 310
CompareAssignmentsAndNotifyChanges ==
    /\ pc = "compareAssignments"
    /\ \E changes \in compareAssignments(oldAssignments, newAssignments) :
          changesA' = changes
    /\ \E posted \in BOOLEAN :
          /\ notifyA' = NotifyChanges(changesA', posted)
          /\ pc' = AfterCompareAssignments(notifyA')
    /\ UNCHANGED <<filesVars, tickPending, oldClasses, err1, oldAssignments, err2,
                   fetched, newClasses, newAssignments, changesC,
                   notifyC, saveC, saveA, lastCycle, diffVars, projVars>>

SaveStatus(err) == IF err THEN "failed" ELSE "saved"

\* where fetchAndCompare goes on after the classes save, lines 313-316
AfterSaveClasses(err) == "saveAssignments"

\* fetchAndCompare, lines 313-315
SaveClasses ==
    /\ pc = "saveClasses"
    /\ \E outcome \in WriteOutcomes :
          LET r == saveBackupDataClasses(fileClasses, newClasses, outcome)
          IN  /\ fileClasses' = r.file
              /\ saveC' = SaveStatus(r.err)
              /\ pc' = AfterSaveClasses(r.err)
    /\ UNCHANGED <<fileAssignments, tickPending, oldClasses, err1, oldAssignments,
                   err2, fetched, newClasses, newAssignments, changesC, changesA,
                   notifyC, notifyA, saveA, lastCycle, diffVars, projVars>>

\* fetchAndCompare, lines 316-321
SaveAssignments ==
    /\ pc = "saveAssignments"
    /\ \E outcome \in WriteOutcomes :
          LET r == saveBackupDataAssignments(fileAssignments, newAssignments, outcome)
          IN  /\ fileAssignments' = r.file
              /\ saveA' = SaveStatus(r.err)
    /\ pc' = "wait"
    /\ UNCHANGED <<fileClasses, tickPending, oldClasses, err1, oldAssignments,
                   err2, fetched, newClasses, newAssignments, changesC, changesA,
                   notifyC, notifyA, saveC, lastCycle, diffVars, projVars>>

\* no student record is being projected on its own
NoStudent ==
    [Sections |-> <<>>, ReportingTerms |-> <<>>, FinalGrades |-> <<>>,
     Assignments |-> <<>>, AssignmentScores |-> <<>>]

NoWindow == [termBeginDate |-> termBeginDateInit, termDueDate |-> termDueDateInit]

ProjectionOff ==
    /\ pStudent = NoStudent /\ pNow = 0 /\ pOld = <<>>
    /\ pAllowed = {} /\ pWindow = NoWindow
    /\ pClasses = <<>> /\ pAssignments = <<>> /\ pChanges = <<>>
    /\ ppc = "off"

\* the process starts with no backup file, the ticker created (line 325)
\* and the first call of fetchAndCompare about to run (line 329)
Init ==
    /\ fileClasses = MissingFile
    /\ fileAssignments = MissingFile
    /\ tickPending = FALSE
    /\ pc = "load"
    /\ oldClasses = <<>> /\ err1 = FALSE
    /\ oldAssignments = <<>> /\ err2 = FALSE
    /\ fetched = "pending"
    /\ newClasses = <<>> /\ newAssignments = <<>>
    /\ changesC = <<>> /\ changesA = <<>>
    /\ notifyC = "none" /\ notifyA = "none"
    /\ saveC = "none" /\ saveA = "none"
    /\ lastCycle = NoRecord
    /\ dOld = <<>> /\ dNew = <<>> /\ dKind = "none"
    /\ dRun1 = <<>> /\ dRun2 = <<>> /\ dpc = "off"
    /\ ProjectionOff

Next ==
    \/ Tick
    \/ TickerReceive
    \/ LoadBackups
    \/ FetchFails
    \/ FetchAndProject
    \/ CompareGradesAndNotifyChanges
    \/ CompareAssignmentsAndNotifyChanges
    \/ SaveClasses
    \/ SaveAssignments

Spec == Init /\ [][Next]_vars

\* The program under fair scheduling: the ticker goroutine fires again and
\* again, and main, the only other goroutine, takes a tick that is waiting
\* and runs the loads, which call nothing but the local file system.  No
\* fairness is asked of the steps that wait for the network.
Fairness ==
    /\ WF_vars(Tick)
    /\ WF_vars(TickerReceive)
    /\ WF_vars(LoadBackups)

SpecFair == Init /\ [][Next]_vars /\ Fairness

\* The same program with the history of the last cycle recorded.
InitHistory ==
    /\ fileClasses = MissingFile
    /\ fileAssignments = MissingFile
    /\ tickPending = FALSE
    /\ pc = "load"
    /\ oldClasses = <<>> /\ err1 = FALSE
    /\ oldAssignments = <<>> /\ err2 = FALSE
    /\ fetched = "pending"
    /\ newClasses = <<>> /\ newAssignments = <<>>
    /\ changesC = <<>> /\ changesA = <<>>
    /\ notifyC = "none" /\ notifyA = "none"
    /\ saveC = "none" /\ saveA = "none"
    /\ lastCycle = [recording |-> TRUE, valid |-> FALSE]
    /\ dOld = <<>> /\ dNew = <<>> /\ dKind = "none"
    /\ dRun1 = <<>> /\ dRun2 = <<>> /\ dpc = "off"
    /\ ProjectionOff

SpecHistory == InitHistory /\ [][Next]_vars

----------------------------------------------------------------------------
(* The diff engine on its own: the two compare functions applied, twice,   *)
(* to a pair of collections of up to MaxDiffLen records.                   *)

MaxDiffLen == 2

DiffGrades == {"A", "B", "C"}

\* class collections as the projection builds them: the name is the
\* section's title, and an id may occur more than once
DiffClassRecords ==
    {[ID |-> id, Name |-> idMap(Sections, id), Grade |-> g] :
        id \in 1..MaxDiffLen, g \in DiffGrades}

DiffClassLists == SeqsUpTo(DiffClassRecords, MaxDiffLen)

DiffAssignmentRecords ==
    {[ID |-> id, Name |-> AssignmentName(id), Grade |-> Append(sc, "%"),
      ClassID |-> id, ClassName |-> idMap(Sections, id)] :
        id \in 1..MaxDiffLen, sc \in Scores \ {<<>>}}

\* assignment collections of distinct ids
DiffAssignmentLists ==
    {l \in SeqsUpTo(DiffAssignmentRecords, MaxDiffLen) :
        \A i, j \in 1..Len(l) : l[i].ID = l[j].ID => i = j}

\* the changes slices one call of the compare function of a kind may build
DiffOutcomes(kind, old, new) ==
    IF kind = "classes"
    THEN {compareGrades(old, new)}
    ELSE compareAssignments(old, new)

InitDiff ==
    /\ fileClasses = MissingFile
    /\ fileAssignments = MissingFile
    /\ tickPending = FALSE
    /\ pc = "off"
    /\ oldClasses = <<>> /\ err1 = FALSE
    /\ oldAssignments = <<>> /\ err2 = FALSE
    /\ fetched = "pending"
    /\ newClasses = <<>> /\ newAssignments = <<>>
    /\ changesC = <<>> /\ changesA = <<>>
    /\ notifyC = "none" /\ notifyA = "none"
    /\ saveC = "none" /\ saveA = "none"
    /\ lastCycle = NoRecord
    /\ dKind \in {"classes", "assignments"}
    /\ \/ dKind = "classes" /\ dOld \in DiffClassLists /\ dNew \in DiffClassLists
       \/ dKind = "assignments" /\ dOld \in DiffAssignmentLists
                                /\ dNew \in DiffAssignmentLists
    /\ dRun1 = <<>> /\ dRun2 = <<>>
    /\ dpc = "run1"
    /\ ProjectionOff

DiffFirstRun ==
    /\ dpc = "run1"
    /\ dRun1' \in DiffOutcomes(dKind, dOld, dNew)
    /\ dpc' = "run2"
    /\ UNCHANGED <<filesVars, tickPending, cycleVars, lastCycle, dOld, dNew, dKind, dRun2, projVars>>

DiffSecondRun ==
    /\ dpc = "run2"
    /\ dRun2' \in DiffOutcomes(dKind, dOld, dNew)
    /\ dpc' = "done"
    /\ UNCHANGED <<filesVars, tickPending, cycleVars, lastCycle, dOld, dNew, dKind, dRun1, projVars>>

NextDiff ==
    \/ DiffFirstRun
    \/ DiffSecondRun

SpecDiff == InitDiff /\ [][NextDiff]_vars

----------------------------------------------------------------------------
(* The projection on its own: lines 244-306 applied to one student record  *)
(* at one clock reading, followed by the assignments diff of line 310      *)
(* against an old snapshot.  Two families of inputs: reporting terms of    *)
(* every shape with nothing to project, and the fixed reporting terms with *)
(* assignments of every shape.                                             *)

MaxTerms == 2            \* length of student.ReportingTerms

\* start and end dates of reporting terms, on both sides of the date
\* termBeginDate starts from
TermDates == {20240101, 20240301, 20240601, 21000601, 21010601}

TermTitles == {<<>>, <<"Q", "1">>, <<"S", "1">>}

TermShapes ==
    {t \in [Title : TermTitles, StartDate : TermDates, EndDate : TermDates] :
        t.StartDate < t.EndDate}

\* student.ReportingTerms: up to MaxTerms terms, the id of a term its position
TermLists ==
    {[i \in 1..Len(l) |-> [Id |-> i, Title |-> l[i].Title,
                           StartDate |-> l[i].StartDate, EndDate |-> l[i].EndDate]] :
        l \in SeqsUpTo(TermShapes, MaxTerms)}

\* time.Now() between and on the term dates
TermNows == {20240201, 20240301, 20240401, 20240701, 21010101}

TermStudents ==
    [Sections : {Sections}, ReportingTerms : TermLists, FinalGrades : {<<>>},
     Assignments : {<<>>}, AssignmentScores : {<<>>}]

\* due dates before, between, inside and after the two dates the window
\* starts from
ProjDueDates == {19990615, 20240215, 20240715, 21010615}

ProjAssignmentEntries(id) ==
    [Id : {id}, Name : {AssignmentName(id)}, Sectionid : {id}, DueDate : ProjDueDates]

ProjAssignmentLists ==
    {l \in SeqsUpTo(UNION {ProjAssignmentEntries(id) : id \in 1..MaxAssignments},
                    MaxAssignments) :
        \A i, j \in 1..Len(l) : l[i].Id = l[j].Id => i = j}

\* student.AssignmentScores: at most one entry per assignment id; an
\* assignment may have no entry, an entry with score "" or a score
ProjScoreLists ==
    {SelectSeq([i \in 1..MaxAssignments |-> [AssignmentId |-> i, Score |-> f[i].Score,
                                             present |-> f[i].present]],
               LAMBDA e : e.present) :
        f \in [1..MaxAssignments -> [present : BOOLEAN, Score : Scores]]}

\* student.FinalGrades of at most one entry
ProjFinalGradeLists == {l \in FinalGradeLists : Len(l) <= 1}

ProjStudents ==
    [Sections : {Sections}, ReportingTerms : {ReportingTerms},
     FinalGrades : ProjFinalGradeLists, Assignments : ProjAssignmentLists,
     AssignmentScores : ProjScoreLists]

\* the assignments snapshots an earlier cycle can have saved
PersistedAssignments == {p[2] : p \in Projections}

ProjectionInit ==
    /\ fileClasses = MissingFile
    /\ fileAssignments = MissingFile
    /\ tickPending = FALSE
    /\ pc = "off"
    /\ oldClasses = <<>> /\ err1 = FALSE
    /\ oldAssignments = <<>> /\ err2 = FALSE
    /\ fetched = "pending"
    /\ newClasses = <<>> /\ newAssignments = <<>>
    /\ changesC = <<>> /\ changesA = <<>>
    /\ notifyC = "none" /\ notifyA = "none"
    /\ saveC = "none" /\ saveA = "none"
    /\ lastCycle = NoRecord
    /\ dOld = <<>> /\ dNew = <<>> /\ dKind = "none"
    /\ dRun1 = <<>> /\ dRun2 = <<>> /\ dpc = "off"
    /\ pAllowed = {} /\ pWindow = NoWindow
    /\ pClasses = <<>> /\ pAssignments = <<>> /\ pChanges = <<>>
    /\ ppc = "project"

InitTerms ==
    /\ ProjectionInit
    /\ pStudent \in TermStudents
    /\ pNow \in TermNows
    /\ pOld = <<>>

InitProject ==
    /\ ProjectionInit
    /\ pStudent \in ProjStudents
    /\ pNow \in Nows
    /\ pOld \in PersistedAssignments

\* fetchAndCompare, lines 244-306, on the record GetStudent returned
ProjectStudent ==
    /\ ppc = "project"
    /\ pAllowed' = allowedTerms(pStudent.ReportingTerms, pNow)
    /\ pWindow' = TermWindow(pStudent.ReportingTerms, pNow, Len(pStudent.ReportingTerms))
    /\ pClasses' = NewClasses(pStudent, pNow)
    /\ pAssignments' = NewAssignments(pStudent, pNow)
    /\ ppc' = "compare"
    /\ UNCHANGED <<filesVars, tickPending, cycleVars, lastCycle, diffVars,
                   pStudent, pNow, pOld, pChanges>>

\* fetchAndCompare, line 310, on the projected assignments
CompareProjected ==
    /\ ppc = "compare"
    /\ pChanges' \in compareAssignments(pOld, pAssignments)
    /\ ppc' = "done"
    /\ UNCHANGED <<filesVars, tickPending, cycleVars, lastCycle, diffVars,
                   pStudent, pNow, pOld, pAllowed, pWindow, pClasses, pAssignments>>

NextProject ==
    \/ ProjectStudent
    \/ CompareProjected

SpecTerms == InitTerms /\ [][NextProject]_vars

SpecProject == InitProject /\ [][NextProject]_vars

----------------------------------------------------------------------------
(* Vocabulary of the claims.                                               *)

Ids(collection) == {collection[i].ID : i \in 1..Len(collection)}

UniqueIds(collection) ==
    \A i, j \in 1..Len(collection) : collection[i].ID = collection[j].ID => i = j

AddedTypes == {"New class added", "New assignment added"}
ChangedTypes == {"Grade changed for", "Grade changed for assignment"}
RemovedTypes == {"Assignment removed"}

\* the positions of the changes of the given types about record id
EventsAbout(changes, types, id) ==
    {i \in 1..Len(changes) : changes[i].type \in types /\ changes[i].id = id}

EventsOfTypes(changes, types) ==
    {i \in 1..Len(changes) : changes[i].type \in types}

\* the cycle has passed the fetch and run the compare call of the kind
PastCompareGrades ==
    /\ fetched = "ok"
    /\ pc \in {"compareAssignments", "saveClasses", "saveAssignments", "wait", "load"}

PastCompareAssignments ==
    /\ fetched = "ok"
    /\ pc \in {"saveClasses", "saveAssignments", "wait", "load"}

\* the cycle has run to its end (the next one has not loaded yet)
CycleEnded == pc \in {"wait", "load"} /\ fetched # "pending"

----------------------------------------------------------------------------
(* C1 *)

\* exactly one removed change per id of old that new lacks, and no other
RemovedExactly(changes, old, new) ==
    /\ \A id \in Ids(old) \ Ids(new) :
          Cardinality(EventsAbout(changes, RemovedTypes, id)) = 1
    /\ \A i \in EventsOfTypes(changes, RemovedTypes) :
          changes[i].id \in Ids(old) \ Ids(new)

\* C1: for both kinds, when old and new have unique ids the changes hold
\* exactly one "removed" change for each id that is in old and not in new,
\* and no other removed change.
C1_RemovedPerMissingId ==
    /\ (PastCompareGrades /\ UniqueIds(oldClasses) /\ UniqueIds(newClasses))
          => RemovedExactly(changesC, oldClasses, newClasses)
    /\ (PastCompareAssignments /\ UniqueIds(oldAssignments) /\ UniqueIds(newAssignments))
          => RemovedExactly(changesA, oldAssignments, newAssignments)

----------------------------------------------------------------------------
(* C2 *)

\* C2: in a cycle whose fetch failed the cycle has ended, no compare call
\* has run, nothing was sent, no save was attempted and each backup file
\* still loads to what the cycle loaded at its start.
C2_FetchFailureAborts ==
    fetched = "failed" =>
        /\ pc \in {"wait", "load"}
        /\ changesC = <<>> /\ changesA = <<>>
        /\ notifyC = "none" /\ notifyA = "none"
        /\ saveC = "none" /\ saveA = "none"
        /\ loadBackupDataClasses(fileClasses) = [data |-> oldClasses, err |-> err1]
        /\ loadBackupDataAssignments(fileAssignments)
              = [data |-> oldAssignments, err |-> err2]

\* a fetch failed in a cycle that had loaded non-empty snapshots of both kinds
C2_Witness ==
    /\ fetched = "failed"
    /\ Len(oldClasses) > 0
    /\ Len(oldAssignments) > 0

----------------------------------------------------------------------------
(* C3 *)

\* C3: once a save of a kind has been attempted in a cycle (completed,
\* failed or cut short), the collection the next load reads from the file is
\* either the collection the cycle loaded at its start or the complete new
\* collection.
C3_SaveIsAtomic ==
    /\ (saveC # "none") =>
          loadBackupDataClasses(fileClasses).data \in {oldClasses, newClasses}
    /\ (saveA # "none") =>
          loadBackupDataAssignments(fileAssignments).data
              \in {oldAssignments, newAssignments}

----------------------------------------------------------------------------
(* C4 *)

IdGrades(collection) ==
    {<<collection[i].ID, collection[i].Grade>> : i \in 1..Len(collection)}

\* C4: when old and new of a kind hold the same ids with the same grades,
\* the compare call of that kind builds no change, logs "no changes" and
\* does not call sendDiscordNotification.
C4_SameCollectionsNoChanges ==
    /\ (PastCompareGrades /\ IdGrades(oldClasses) = IdGrades(newClasses))
          => (changesC = <<>> /\ notifyC = "nochanges")
    /\ (PastCompareAssignments /\ IdGrades(oldAssignments) = IdGrades(newAssignments))
          => (changesA = <<>> /\ notifyA = "nochanges")

----------------------------------------------------------------------------
(* C5 *)

\* for each old record o and new record n of one id: no added and no
\* removed change about the id; if the grades differ exactly one grade
\* change about the id, carrying o's and n's grade; if they are equal no
\* change about the id
GradeChangesExact(changes, old, new) ==
    \A i \in 1..Len(old), j \in 1..Len(new) :
        old[i].ID = new[j].ID =>
            LET id == new[j].ID
                about == EventsAbout(changes, ChangedTypes, id)
            IN  /\ EventsAbout(changes, AddedTypes \cup RemovedTypes, id) = {}
                /\ old[i].Grade # new[j].Grade =>
                      /\ Cardinality(about) = 1
                      /\ \A k \in about : /\ changes[k].old = old[i].Grade
                                          /\ changes[k].new = new[j].Grade
                /\ old[i].Grade = new[j].Grade => about = {}

\* C5: a record in both old and new with different grades gets exactly one
\* "grade changed" change with the old and the new grade as they are and no
\* added or removed change; with equal grades it gets no change.
C5_OneGradeChangePerRecord ==
    /\ PastCompareGrades => GradeChangesExact(changesC, oldClasses, newClasses)
    /\ PastCompareAssignments
          => GradeChangesExact(changesA, oldAssignments, newAssignments)

----------------------------------------------------------------------------
(* C6 *)

\* one added change per record of new, in the order of new
AddedPerNewRecord(changes, new) ==
    LET added == SelectSeq(changes, LAMBDA c : c.type \in AddedTypes)
    IN  /\ Len(added) = Len(new)
        /\ \A i \in 1..Len(new) : /\ added[i].id = new[i].ID
                                  /\ added[i].name = new[i].Name
                                  /\ added[i].new = new[i].Grade

\* C6 as stated: for old and new with no id in common the changes are one
\* "added" change per new record and no "removed" change.
C6_DisjointAddedNoRemoved ==
    (dpc # "run1" /\ Ids(dOld) \cap Ids(dNew) = {}) =>
        /\ AddedPerNewRecord(dRun1, dNew)
        /\ EventsOfTypes(dRun1, RemovedTypes) = {}

\* C6 amended: for old and new with no id in common the changes hold one
\* "added" change per new record and no "grade changed" change; there is no
\* "removed" change when old is empty, and the assignments diff holds one
\* "removed" change per old record.
C6_DisjointAddedAndRemoved ==
    (dpc # "run1" /\ Ids(dOld) \cap Ids(dNew) = {}) =>
        /\ AddedPerNewRecord(dRun1, dNew)
        /\ EventsOfTypes(dRun1, ChangedTypes) = {}
        /\ dOld = <<>> => EventsOfTypes(dRun1, RemovedTypes) = {}
        /\ dKind = "assignments" =>
              /\ Cardinality(EventsOfTypes(dRun1, RemovedTypes)) = Len(dOld)
              /\ \A i \in 1..Len(dOld) :
                    Cardinality(EventsAbout(dRun1, RemovedTypes, dOld[i].ID)) = 1

\* the assignments diff has run on two records against two others
C6_Witness ==
    /\ dpc = "done"
    /\ dKind = "assignments"
    /\ Ids(dOld) \cap Ids(dNew) = {}
    /\ dOld # <<>>
    /\ dNew # <<>>
    /\ Len(dRun1) = Len(dOld) + Len(dNew)

----------------------------------------------------------------------------
(* C7 *)

\* C7: two runs of the diff on the same old and new build the same sequence
\* of changes.
C7_DiffDeterministic ==
    dpc = "done" => dRun1 = dRun2

----------------------------------------------------------------------------
(* C8 *)

\* C8: a failed load does not end the cycle: the old collection of that
\* kind is empty, the cycle goes on to the fetch, and in a cycle that
\* passed the fetch the compare call reports every new record of that kind
\* as added and both saves are attempted.
C8_LoadFailureIsFirstRun ==
    /\ err1 => oldClasses = <<>>
    /\ err2 => oldAssignments = <<>>
    /\ ((err1 \/ err2) /\ pc = "wait") => fetched # "pending"
    /\ (err1 /\ PastCompareGrades) =>
          /\ Len(changesC) = Len(newClasses)
          /\ AddedPerNewRecord(changesC, newClasses)
    /\ (err2 /\ PastCompareAssignments) =>
          /\ Len(changesA) = Len(newAssignments)
          /\ AddedPerNewRecord(changesA, newAssignments)
    /\ ((err1 \/ err2) /\ CycleEnded /\ fetched = "ok") =>
          (saveC # "none" /\ saveA # "none")

\* a cycle whose two loads failed has reported its new records of both
\* kinds as added and has written both files
C8_Witness ==
    /\ err1 /\ err2
    /\ pc = "wait"
    /\ Len(newClasses) > 0 /\ Len(changesC) = Len(newClasses)
    /\ Len(newAssignments) > 0 /\ Len(changesA) = Len(newAssignments)
    /\ fileClasses = FileOf(newClasses)
    /\ fileAssignments = FileOf(newAssignments)

----------------------------------------------------------------------------
(* C9 *)

\* C9: in a cycle in which a notification could not be delivered, the
\* cycle still runs to its end: the assignments compare call has run, both
\* saves have been attempted, and a save that completed wrote the new
\* collection of the cycle.
C9_NotifyFailureDoesNotAbort ==
    /\ notifyC = "failed" =>
          pc \in {"compareAssignments", "saveClasses", "saveAssignments", "wait", "load"}
    /\ notifyA = "failed" => pc \in {"saveClasses", "saveAssignments", "wait", "load"}
    /\ ((notifyC = "failed" \/ notifyA = "failed") /\ CycleEnded) =>
          /\ notifyA # "none"
          /\ saveC # "none" /\ saveA # "none"
          /\ saveC = "saved" => fileClasses = FileOf(newClasses)
          /\ saveA = "saved" => fileAssignments = FileOf(newAssignments)

\* both notifications of a cycle failed and both saves completed
C9_Witness ==
    /\ pc = "wait"
    /\ notifyC = "failed" /\ notifyA = "failed"
    /\ saveC = "saved" /\ saveA = "saved"
    /\ fileClasses = FileOf(newClasses) /\ Len(newClasses) > 0
    /\ fileAssignments = FileOf(newAssignments) /\ Len(newAssignments) > 0

----------------------------------------------------------------------------
(* C10 *)

\* the same changes, in any order
SameChanges(a, b) == Len(a) = Len(b) /\ Range(a) = Range(b)

\* C10: after a failed save of a kind the notifications of the cycle are as
\* the compare calls left them and the file of that kind still loads to the
\* collection the cycle loaded at its start; and the next cycle that passes
\* the fetch and projects the same collection of that kind diffs it against
\* the same old collection and builds the same changes again.
C10_FailedSaveReportsAgain ==
    /\ (saveC = "failed" \/ saveA = "failed") =>
          /\ notifyC \in (IF changesC = <<>> THEN {"nochanges"} ELSE {"sent", "failed"})
          /\ notifyA \in (IF changesA = <<>> THEN {"nochanges"} ELSE {"sent", "failed"})
    /\ saveC = "failed" => loadBackupDataClasses(fileClasses).data = oldClasses
    /\ saveA = "failed" =>
          loadBackupDataAssignments(fileAssignments).data = oldAssignments
    /\ (lastCycle.valid /\ lastCycle.failedC.failed /\ PastCompareGrades
            /\ newClasses = lastCycle.newClasses) =>
          /\ oldClasses = lastCycle.failedC.old
          /\ changesC = lastCycle.failedC.changes
    /\ (lastCycle.valid /\ lastCycle.failedA.failed /\ PastCompareAssignments
            /\ newAssignments = lastCycle.newAssignments) =>
          /\ oldAssignments = lastCycle.failedA.old
          /\ SameChanges(changesA, lastCycle.failedA.changes)

----------------------------------------------------------------------------
(* C11 *)

\* the positions of the terms the claim calls active
ActivePositions(terms, now) ==
    {i \in 1..Len(terms) : /\ terms[i].StartDate < now
                           /\ now < terms[i].EndDate
                           /\ Len(terms[i].Title) > 0
                           /\ terms[i].Title[1] = "Q"}

MinOf(S) == CHOOSE x \in S : \A y \in S : x <= y
MaxOf(S) == CHOOSE x \in S : \A y \in S : y <= x

\* C11: the projection holds in allowedTerms exactly the ids of the terms
\* whose start is before now, whose end is after now and whose title
\* starts with "Q"; and when there is such a term, termBeginDate is the
\* earliest start and termDueDate the latest end of those terms.
C11_WindowIsMinMax ==
    ppc # "project" =>
        LET terms == pStudent.ReportingTerms
            active == ActivePositions(terms, pNow)
        IN  /\ pAllowed = {terms[i].Id : i \in active}
            /\ active # {} =>
                  /\ pWindow.termBeginDate = MinOf({terms[i].StartDate : i \in active})
                  /\ pWindow.termDueDate = MaxOf({terms[i].EndDate : i \in active})

----------------------------------------------------------------------------
(* C12 *)

\* C12: when no term is active at the clock reading of the projection,
\* termBeginDate is later than termDueDate and no assignment is projected.
C12_NoActiveTermNoAssignments ==
    (ppc # "project" /\ ActivePositions(pStudent.ReportingTerms, pNow) = {}) =>
        /\ pWindow.termBeginDate > pWindow.termDueDate
        /\ pAssignments = <<>>

\* no term was active for a student with a scored assignment, which the
\* old snapshot holds
C12_Witness ==
    /\ ppc = "done"
    /\ ActivePositions(pStudent.ReportingTerms, pNow) = {}
    /\ \E i \in 1..Len(pStudent.Assignments) :
          /\ pStudent.Assignments[i].Id \in ScoredIds(pStudent.AssignmentScores)
          /\ pStudent.Assignments[i].Id \in {pOld[j].ID : j \in 1..Len(pOld)}
    /\ pAssignments = <<>>
    /\ Len(pChanges) > 0

----------------------------------------------------------------------------
(* C13 *)

\* C13: the collection a backup file holds has no two class records, and no
\* two assignment records, of one id (the upstream sections and assignments
\* the model enumerates all have distinct ids).
C13_SnapshotIdsUnique ==
    /\ fileClasses.st = "ok" => UniqueIds(fileClasses.data)
    /\ fileAssignments.st = "ok" => UniqueIds(fileAssignments.data)

----------------------------------------------------------------------------
(* C14 *)

\* the assignment has no score: every entry of student.AssignmentScores
\* for its id (there may be none) has the score ""
Ungraded(student, id) ==
    \A i \in 1..Len(student.AssignmentScores) :
        student.AssignmentScores[i].AssignmentId = id
            => student.AssignmentScores[i].Score = <<>>

\* C14: an upstream assignment without a score is not in the projected
\* assignments; and when the old snapshot holds it, the assignments diff
\* of the cycle builds exactly one "removed" change about it and no other
\* change about it.
C14_UngradedNotProjectedAndRemoved ==
    ppc # "project" =>
        \A i \in 1..Len(pStudent.Assignments) :
            LET id == pStudent.Assignments[i].Id
            IN  Ungraded(pStudent, id) =>
                    /\ id \notin Ids(pAssignments)
                    /\ (ppc = "done" /\ id \in Ids(pOld)) =>
                          /\ Cardinality(EventsAbout(pChanges, RemovedTypes, id)) = 1
                          /\ EventsAbout(pChanges, AddedTypes \cup ChangedTypes, id) = {}

\* an assignment due inside the active quarter, graded in the old snapshot
\* and without a score now, was reported as removed
C14_Witness ==
    /\ ppc = "done"
    /\ pAllowed # {}
    /\ \E i \in 1..Len(pStudent.Assignments) :
          LET a == pStudent.Assignments[i]
          IN  /\ Ungraded(pStudent, a.Id)
              /\ a.DueDate > pWindow.termBeginDate
              /\ a.DueDate < pWindow.termDueDate
              /\ a.Id \in Ids(pOld)
              /\ EventsAbout(pChanges, RemovedTypes, a.Id) # {}

----------------------------------------------------------------------------
(* C15 *)

\* fetchAndCompare is running: main is inside the call of line 329 or 333
InCycle == pc \in {"load", "fetch", "compareGrades", "compareAssignments",
                   "saveClasses", "saveAssignments"}

\* C15: a call of fetchAndCompare starts only when none is running: a step
\* that takes main to the first statement of fetchAndCompare starts from
\* the wait for a tick, and a tick that fires while a call is running
\* leaves that call where it is; and only a running call changes a backup
\* file.
C15_CyclesDoNotOverlap ==
    [][ /\ (pc' = "load" /\ pc # "load") => pc = "wait"
        /\ (InCycle /\ tickPending' # tickPending) => pc' = pc
        /\ (fileClasses' # fileClasses \/ fileAssignments' # fileAssignments)
              => (InCycle /\ pc' \in {"saveAssignments", "wait"}) ]_vars

\* a tick fired while a cycle was about to save, and waits in ticker.C
C15_Witness ==
    /\ pc \in {"saveClasses", "saveAssignments"}
    /\ tickPending
    /\ fileClasses.st = "ok"

----------------------------------------------------------------------------
(* C16 *)

\* C16: under fair scheduling of the ticker and of main, a cycle that a
\* failed fetch has ended is followed by a cycle that stands before the
\* call of GetStudent again.
C16_FailedFetchIsRetried ==
    (fetched = "failed") ~> (pc = "fetch" /\ fetched = "pending")

\* a cycle that found no backup file has ended with a failed fetch and
\* waits for the next tick
C16_Witness ==
    /\ fetched = "failed"
    /\ pc = "wait"
    /\ fileClasses = MissingFile
    /\ ~tickPending
    /\ err1 /\ err2

----------------------------------------------------------------------------
(* C17 *)

\* the changes that are not "removed" changes, in their order
KeptChanges(changes) == SelectSeq(changes, LAMBDA c : c.type \notin RemovedTypes)

\* each change of the sequence is about a record of new with its id and
\* grade, and the records stand in new in the order of their changes
InOrderOf(kept, new) ==
    \E f \in [1..Len(kept) -> 1..Len(new)] :
        /\ \A i \in 1..Len(kept) : /\ kept[i].id = new[f[i]].ID
                                   /\ kept[i].new = new[f[i]].Grade
        /\ \A i, j \in 1..Len(kept) : i < j => f[i] < f[j]

\* the diff of the example: old classes [{1,Math,B}], new classes
\* [{1,Math,A},{2,Art,C}]
C17_ExampleOld == << [ID |-> 1, Name |-> "Math", Grade |-> "B"] >>

C17_ExampleNew ==
    << [ID |-> 1, Name |-> "Math", Grade |-> "A"],
       [ID |-> 2, Name |-> "Art", Grade |-> "C"] >>

C17_ExampleChanges ==
    << [type |-> "Grade changed for", id |-> 1, name |-> "Math",
        old |-> "B", new |-> "A"],
       [type |-> "New class added", id |-> 2, name |-> "Art", new |-> "C"] >>

\* C17: in the changes of a diff no "removed" change stands before a
\* "grade changed" or "added" change, and the "grade changed" and "added"
\* changes follow the order of their records in new; the diff of the
\* example builds the grade change of Math from B to A and then the
\* addition of Art with C.
C17_ChangesInOrderOfNew ==
    dpc # "run1" =>
        /\ \A i, j \in 1..Len(dRun1) :
              (dRun1[i].type \in RemovedTypes /\ dRun1[j].type \notin RemovedTypes)
                  => j < i
        /\ InOrderOf(KeptChanges(dRun1), dNew)
        /\ (dKind = "classes" /\ dOld = C17_ExampleOld /\ dNew = C17_ExampleNew)
              => dRun1 = C17_ExampleChanges

\* the example has been diffed
C17_Witness ==
    /\ dpc = "done"
    /\ dKind = "classes"
    /\ dOld = C17_ExampleOld
    /\ dNew = C17_ExampleNew
    /\ Len(dRun1) = 2

----------------------------------------------------------------------------
(* C18 *)

\* what has happened in the cycle before each of its steps
C18_StepsInOrder ==
    /\ fetched = "pending" =>
          (newClasses = <<>> /\ newAssignments = <<>> /\ notifyC = "none")
    /\ notifyC # "none" =>
          (fetched = "ok" /\ changesC = compareGrades(oldClasses, newClasses))
    /\ notifyA # "none" =>
          /\ notifyC # "none"
          /\ changesA \in compareAssignments(oldAssignments, newAssignments)
    /\ saveC # "none" => notifyA # "none"
    /\ saveA # "none" => saveC # "none"

\* a step that changes the classes file, or completes the classes save
C18_ClassesSaveStep ==
    /\ fileClasses' # fileClasses =>
          /\ notifyC # "none"
          /\ loadBackupDataClasses(fileClasses) = [data |-> oldClasses, err |-> err1]
          /\ changesC = compareGrades(oldClasses, newClasses)
          /\ fileClasses' \in {FileOf(newClasses), PartialFile}
    /\ (saveC' = "saved" /\ saveC # "saved") =>
          (fileClasses' = FileOf(newClasses) /\ newClasses' = newClasses)

\* a step that changes the assignments file, or completes its save
C18_AssignmentsSaveStep ==
    /\ fileAssignments' # fileAssignments =>
          /\ notifyA # "none"
          /\ loadBackupDataAssignments(fileAssignments)
                = [data |-> oldAssignments, err |-> err2]
          /\ changesA \in compareAssignments(oldAssignments, newAssignments)
          /\ fileAssignments' \in {FileOf(newAssignments), PartialFile}
    /\ (saveA' = "saved" /\ saveA # "saved") =>
          (fileAssignments' = FileOf(newAssignments) /\ newAssignments' = newAssignments)

\* C18: in a cycle the projection comes after the loads, each diff and its
\* notification after the projection and the saves after both
\* notifications; a step changes the file of a kind only when the changes
\* of that kind were computed against what the file held and old and new
\* of the cycle and their notification was attempted; and a save that
\* completes leaves in the file exactly the new collection of the cycle.
C18_LoadProjectDiffNotifySave ==
    /\ []C18_StepsInOrder
    /\ [][C18_ClassesSaveStep /\ C18_AssignmentsSaveStep]_vars

\* both saves of a cycle that loaded, diffed and reported changes against
\* non-empty snapshots have completed
C18_Witness ==
    /\ pc = "wait"
    /\ saveC = "saved" /\ saveA = "saved"
    /\ Len(oldClasses) > 0 /\ Len(oldAssignments) > 0
    /\ Len(changesC) > 0 /\ Len(changesA) > 0
    /\ fileClasses = FileOf(newClasses) /\ newClasses # oldClasses
    /\ fileAssignments = FileOf(newAssignments) /\ newAssignments # oldAssignments

----------------------------------------------------------------------------
(* C19 *)

\* the last cycle that passed the fetch completed both saves, and this
\* cycle has passed the fetch and projected the same two collections
SameProjectionAfterSaves ==
    /\ lastCycle.valid
    /\ lastCycle.saveC = "saved" /\ lastCycle.saveA = "saved"
    /\ fetched = "ok"
    /\ newClasses = lastCycle.newClasses
    /\ newAssignments = lastCycle.newAssignments

\* C19: a cycle that projects the collections which the cycle before it
\* projected and saved builds no change of either kind and sends no
\* notification.
C19_SteadyStateQuiet ==
    SameProjectionAfterSaves =>
        /\ PastCompareGrades => (changesC = <<>> /\ notifyC = "nochanges")
        /\ PastCompareAssignments => (changesA = <<>> /\ notifyA = "nochanges")

----------------------------------------------------------------------------
(* C20 *)

\* C20: a cycle that passed the fetch and has ended has attempted both
\* saves, whatever became of the first; and each backup file then holds
\* either the collection the cycle loaded from it or the complete new
\* collection of its kind.
C20_SavesIndependent ==
    (CycleEnded /\ fetched = "ok") =>
        /\ saveC # "none" /\ saveA # "none"
        /\ \/ loadBackupDataClasses(fileClasses).data = oldClasses
           \/ fileClasses = FileOf(newClasses)
        /\ \/ loadBackupDataAssignments(fileAssignments).data = oldAssignments
           \/ fileAssignments = FileOf(newAssignments)

====
